---------------------------- MODULE Spec2Model ----------------------------
(***************************************************************************)
(* SOH Watch: the rule engine of inventory_utils.py (status classifier,    *)
(* reorder suggester, forecast coverage simulation) and the purchase-order *)
(* integration of inventory_health_app.py (PO-by-SKU index, runout         *)
(* estimate, mitigation check).                                            *)
(*                                                                         *)
(* Numbers.  Every numeric column is a float64 after pd.to_numeric.  A     *)
(* quantity q is modelled in fixed point: the integer n stands for the     *)
(* float n / Scale, so with Scale = 2 the model ranges over multiples of   *)
(* one half, all of which are exact in float64.  A cell is a record        *)
(* [absent, val]: NaN is [absent |-> TRUE, val |-> 0] and the number       *)
(* n / Scale is [absent |-> FALSE, val |-> n].  The result of int(...) is  *)
(* a whole number and is kept as a plain integer in val (not fixed point). *)
(*                                                                         *)
(* Strings.  Status texts are the source's texts without their leading     *)
(* emoji.  A SKU code is the sequence of the Unicode code points of its    *)
(* characters (<<65>> is "A", <<110, 97, 110>> is "nan"), so that          *)
(* str.strip() and astype(str) can be modelled by what they do.            *)
(***************************************************************************)
EXTENDS Integers, Sequences, FiniteSets, TLC

VARIABLES
    pc,               \* position in the script of inventory_health_app.py
    row,              \* the inventory row: SKU Code and the numeric columns
    forecast,         \* the row's forecast columns, in column order
    status,           \* df["Status"] of the row
    suggested,        \* df["Suggested Reorder Qty"] of the row
    er,               \* estimate_runout: loop index, remaining, returned value
    sr,               \* simulate_runout: loop index, remaining_soh, result list
    po_file,          \* the uploaded purchase-order table, as read
    df_po,            \* df_po after cleaning and dropna
    po_next_arrival,  \* dict SKU -> earliest Expected Delivery Date
    po_next_qty,      \* dict SKU -> sum of Order Qty
    runout_period,    \* df['Runout Period'] of the row
    next_po_arrival,  \* df['Next PO Arrival'] of the row
    next_po_qty,      \* df['Next PO Qty'] of the row
    po_mitigates      \* df['PO Mitigates OOS?'] of the row

vars == <<pc, row, forecast, status, suggested, er, sr, po_file, df_po,
          po_next_arrival, po_next_qty, runout_period, next_po_arrival,
          next_po_qty, po_mitigates>>

---------------------------------------------------------------------------
(* Bounds of the model *)

\* fixed-point resolution: n stands for n / Scale
Scale == 2
\* largest quantity numerator (MaxQty / Scale is the largest quantity)
MaxQty == 4
\* the smallest quantity numerator is -MaxNeg
MaxNeg == 2
\* largest number of forecast columns
MaxPeriods == 3
\* largest number of lines in the purchase-order table
MaxLines == 2
\* largest Runout Period (in weeks) of the row joined to the PO index
MaxRunout == 1

---------------------------------------------------------------------------
(* Cells: float64 with NaN, None, and their comparisons *)

NaN == [absent |-> TRUE, val |-> 0]
\* None, as returned by suggest_reorder and dict.get(key, None)
None == [absent |-> TRUE, val |-> 0]
Num(n) == [absent |-> FALSE, val |-> n]

\* a SKU Code cell as read: missing, or a text (a sequence of code points)
MissingSku == [absent |-> TRUE, val |-> <<>>]
Text(t) == [absent |-> FALSE, val |-> t]

\* pd.isna
isna(x) == x.absent

\* float comparisons: any comparison with NaN is False
Lt(a, b) == ~a.absent /\ ~b.absent /\ a.val < b.val
Le(a, b) == ~a.absent /\ ~b.absent /\ a.val <= b.val
Gt(a, b) == ~a.absent /\ ~b.absent /\ a.val > b.val
Ge(a, b) == ~a.absent /\ ~b.absent /\ a.val >= b.val

\* float subtraction: NaN propagates
Sub(a, b) == IF a.absent \/ b.absent THEN NaN ELSE Num(a.val - b.val)

Qty == { Num(n) : n \in (0 - MaxNeg)..MaxQty }
QtyNa == Qty \cup {NaN}

\* ceil(a / b) for b > 0 (np.ceil of a float quotient)
Ceil(a, b) == 0 - ((0 - a) \div b)

\* int(x) of the float n / Scale: truncation toward zero
ToInt(n) == IF n >= 0 THEN n \div Scale ELSE 0 - ((0 - n) \div Scale)

---------------------------------------------------------------------------
(* inventory_utils.py: assess_status, suggest_reorder *)

CRITICAL_BELOW_MIN == "Critical!!! Below Min Qty"
REORDER_LEVEL == "Reorder Level"
OVERSTOCKED == "Overstocked"
HEALTHY == "Healthy"
MISSING_SOH == "Missing SOH"

\* soh < reorder_threshold, where
\* reorder_threshold = max_qty - ((max_qty - min_qty) / 3).
\* Both sides are multiplied by 3 to stay in the integers:
\* 3 * threshold = 3 * max_qty - (max_qty - min_qty).
BelowThreshold(soh, min_qty, max_qty) ==
    3 * soh.val < 3 * max_qty.val - (max_qty.val - min_qty.val)

\* assess_status with the critical test written soh <= min_qty
assess_status_le(r) ==
    LET soh == r.SOH
        min_qty == r.MinQty
        max_qty == r.MaxQty
    IN  IF isna(soh) THEN MISSING_SOH
        ELSE IF isna(min_qty) \/ isna(max_qty) THEN MISSING_SOH
        ELSE IF Le(soh, min_qty) THEN CRITICAL_BELOW_MIN
        ELSE IF BelowThreshold(soh, min_qty, max_qty) THEN REORDER_LEVEL
        ELSE IF Gt(soh, max_qty) THEN OVERSTOCKED
        ELSE HEALTHY

\* assess_status with the threshold test placed before the critical test
assess_status_swapped(r) ==
    LET soh == r.SOH
        min_qty == r.MinQty
        max_qty == r.MaxQty
    IN  IF isna(soh) THEN MISSING_SOH
        ELSE IF isna(min_qty) \/ isna(max_qty) THEN MISSING_SOH
        ELSE IF BelowThreshold(soh, min_qty, max_qty) THEN REORDER_LEVEL
        ELSE IF Lt(soh, min_qty) THEN CRITICAL_BELOW_MIN
        ELSE IF Gt(soh, max_qty) THEN OVERSTOCKED
        ELSE HEALTHY

assess_status(r) ==
    LET soh == r.SOH
        min_qty == r.MinQty
        max_qty == r.MaxQty
    IN  IF isna(soh) THEN MISSING_SOH
        ELSE IF isna(min_qty) \/ isna(max_qty) THEN MISSING_SOH
        ELSE IF Lt(soh, min_qty) THEN CRITICAL_BELOW_MIN
        ELSE IF BelowThreshold(soh, min_qty, max_qty) THEN REORDER_LEVEL
        ELSE IF Gt(soh, max_qty) THEN OVERSTOCKED
        ELSE HEALTHY

\* base = max(moq, min_qty - soh), as a fixed-point numerator
ReorderBase(r) ==
    LET need == r.MinQty.val - r.SOH.val
    IN  IF r.MOQ.val >= need THEN r.MOQ.val ELSE need

\* (np.ceil(base / minor_mult)) * minor_mult, as a fixed-point numerator
RoundUpToMultiple(base, minor_mult) == Ceil(base, minor_mult) * minor_mult

suggest_reorder(r) ==
    LET soh == r.SOH
        min_qty == r.MinQty
        max_qty == r.MaxQty
        moq == r.MOQ
        minor_mult == r.MinorMult
    IN  IF isna(soh) \/ isna(min_qty) \/ isna(max_qty) \/ isna(moq) THEN None
        ELSE IF BelowThreshold(soh, min_qty, max_qty)
             THEN LET base == ReorderBase(r)
                  IN  IF ~isna(minor_mult) /\ minor_mult.val > 0
                      THEN Num(ToInt(RoundUpToMultiple(base, minor_mult.val)))
                      ELSE Num(ToInt(base))
             ELSE None

---------------------------------------------------------------------------
(* Specification SpecRow: lines 65-66 of inventory_health_app.py, the two  *)
(* df.apply calls, on one row whose numeric cells range over QtyNa.        *)

NoLoop == [i |-> 0, remaining |-> NaN, result |-> NaN, state |-> "idle"]
NoSim == [i |-> 0, remaining_soh |-> NaN, result |-> <<>>, state |-> "idle"]
EmptyDict == [k \in {} |-> NaN]

\* the variables of the purchase-order integration, before any PO upload
NoPurchaseOrders ==
    /\ po_file = <<>>
    /\ df_po = <<>>
    /\ po_next_arrival = EmptyDict
    /\ po_next_qty = EmptyDict
    /\ runout_period = NaN
    /\ next_po_arrival = None
    /\ next_po_qty = None
    /\ po_mitigates = ""

InitRow ==
    /\ pc = "loaded"
    /\ row \in [SKU : {Text(<<65>>)}, SOH : QtyNa, MinQty : QtyNa, MaxQty : QtyNa,
                MOQ : QtyNa, MinorMult : QtyNa]
    /\ forecast = <<>>
    /\ status = ""
    /\ suggested = None
    /\ er = NoLoop
    /\ sr = NoSim
    /\ NoPurchaseOrders

\* df["Status"] = df.apply(assess_status, axis=1)
AssessStatus ==
    /\ pc = "loaded"
    /\ status' = assess_status(row)
    /\ pc' = "classified"
    /\ UNCHANGED <<row, forecast, suggested, er, sr, po_file, df_po,
                   po_next_arrival, po_next_qty, runout_period,
                   next_po_arrival, next_po_qty, po_mitigates>>

\* df["Suggested Reorder Qty"] = df.apply(suggest_reorder, axis=1)
SuggestReorder ==
    /\ pc = "classified"
    /\ suggested' = suggest_reorder(row)
    /\ pc' = "suggested"
    /\ UNCHANGED <<row, forecast, status, er, sr, po_file, df_po,
                   po_next_arrival, po_next_qty, runout_period,
                   next_po_arrival, next_po_qty, po_mitigates>>

NextRow == AssessStatus \/ SuggestReorder

SpecRow == InitRow /\ [][NextRow]_vars

---------------------------------------------------------------------------
(* Claims about assess_status and suggest_reorder, under SpecRow *)

Classified == pc \in {"classified", "suggested"}
AllPresent == ~row.SOH.absent /\ ~row.MinQty.absent /\ ~row.MaxQty.absent
\* soh < max - (max - min)/3, stated as 3*soh < 2*max + min
UnderReorderPoint == 3 * row.SOH.val < 2 * row.MaxQty.val + row.MinQty.val

\* C1: assess_status returns exactly the status of the ordered rule:
\* MISSING_SOH if on-hand, min or max is absent; otherwise CRITICAL_BELOW_MIN
\* if on-hand < min; otherwise REORDER_LEVEL if on-hand < max - (max-min)/3;
\* otherwise OVERSTOCKED if on-hand > max; otherwise HEALTHY.  The result is
\* always one of the five values, also when min > max.
C1_StatusRule ==
    Classified =>
        /\ status \in {MISSING_SOH, CRITICAL_BELOW_MIN, REORDER_LEVEL,
                       OVERSTOCKED, HEALTHY}
        /\ (status = MISSING_SOH) <=> ~AllPresent
        /\ (status = CRITICAL_BELOW_MIN) <=>
               (AllPresent /\ row.SOH.val < row.MinQty.val)
        /\ (status = REORDER_LEVEL) <=>
               (AllPresent /\ row.SOH.val >= row.MinQty.val /\ UnderReorderPoint)
        /\ (status = OVERSTOCKED) <=>
               (AllPresent /\ row.SOH.val >= row.MinQty.val /\ ~UnderReorderPoint
                /\ row.SOH.val > row.MaxQty.val)
        /\ (status = HEALTHY) <=>
               (AllPresent /\ row.SOH.val >= row.MinQty.val /\ ~UnderReorderPoint
                /\ row.SOH.val <= row.MaxQty.val)

\* C1 witness: a row with min > max has been classified, as OVERSTOCKED
C1_Witness ==
    /\ Classified
    /\ AllPresent
    /\ row.MinQty.val > row.MaxQty.val
    /\ status = OVERSTOCKED

\* C2 as stated: whenever on-hand and min are present and on-hand < min the
\* status is CRITICAL_BELOW_MIN, whatever max is (present or absent).
C2_CriticalWhateverMax ==
    (Classified /\ Lt(row.SOH, row.MinQty)) => status = CRITICAL_BELOW_MIN

\* C2 amended: whenever on-hand, min and max are all present and
\* on-hand < min, the status is CRITICAL_BELOW_MIN (an absent max gives
\* MISSING_SOH instead).
C2_CriticalWhenMaxPresent ==
    /\ (Classified /\ Lt(row.SOH, row.MinQty) /\ ~row.MaxQty.absent)
           => status = CRITICAL_BELOW_MIN
    /\ (Classified /\ Lt(row.SOH, row.MinQty) /\ row.MaxQty.absent)
           => status = MISSING_SOH

\* C2 witness: a row below min and also below the reorder threshold has
\* been classified as critical
C2_Witness ==
    /\ Classified
    /\ AllPresent
    /\ row.SOH.val < row.MinQty.val
    /\ UnderReorderPoint
    /\ status = CRITICAL_BELOW_MIN

\* C3: suggest_reorder returns None or an integer >= 0, for every row,
\* including rows with a negative or zero minimum-order-qty and min > max.
C3_NonNegative ==
    pc = "suggested" => (suggested.absent \/ suggested.val >= 0)

\* base = max(minimum-order-qty, min - on-hand), as a fixed-point numerator,
\* of a row for which a quantity was returned
ClaimBase ==
    IF row.MOQ.val >= row.MinQty.val - row.SOH.val
    THEN row.MOQ.val ELSE row.MinQty.val - row.SOH.val

\* C4: a returned quantity of a row with minor-order-multiple > 0 is the
\* smallest multiple of the multiple that is >= base (so quantity mod
\* multiple = 0 and quantity >= base); with the multiple absent or <= 0 the
\* quantity is base truncated to an integer.
C4_SmallestMultiple ==
    (pc = "suggested" /\ ~suggested.absent) =>
        IF ~row.MinorMult.absent /\ row.MinorMult.val > 0
        THEN /\ (suggested.val * Scale) % row.MinorMult.val = 0
             /\ suggested.val * Scale >= ClaimBase
             /\ suggested.val * Scale - row.MinorMult.val < ClaimBase
        ELSE suggested.val = ToInt(ClaimBase)

\* C9: with on-hand, min, max and minimum-order-qty all present, a quantity
\* is suggested if and only if the status is CRITICAL_BELOW_MIN or
\* REORDER_LEVEL, for all min/max values including min > max.
C9_SuggestIffReorderStatus ==
    (pc = "suggested" /\ AllPresent /\ ~row.MOQ.absent) =>
        (~suggested.absent <=> status \in {CRITICAL_BELOW_MIN, REORDER_LEVEL})

---------------------------------------------------------------------------
(* estimate_runout (inventory_health_app.py) and simulate_runout           *)
(* (inventory_utils.py), one loop iteration per step                       *)

\* the check-mark text of a covered period, and the mark "" of any other
COVERED == "covered"
NOT_COVERED == ""

Zero == Num(0)

\* estimate_step with the exhaustion test written remaining < 0
estimate_step_strict(remaining, usage) ==
    IF isna(usage)
    THEN [remaining |-> remaining, out |-> FALSE]
    ELSE [remaining |-> Sub(remaining, usage),
          out |-> Lt(Sub(remaining, usage), Zero)]

\* one iteration of the loop of estimate_runout: the new remaining, and
\* whether the function returns float(i) in this iteration
estimate_step(remaining, usage) ==
    IF isna(usage)
    THEN [remaining |-> remaining, out |-> FALSE]
    ELSE [remaining |-> Sub(remaining, usage),
          out |-> Le(Sub(remaining, usage), Zero)]

\* coverage_step with the coverage test written remaining_soh > usage
coverage_step_strict(remaining_soh, usage) ==
    IF isna(usage) \/ isna(remaining_soh)
    THEN [remaining_soh |-> remaining_soh, mark |-> NOT_COVERED]
    ELSE IF Gt(remaining_soh, usage)
    THEN [remaining_soh |-> Sub(remaining_soh, usage), mark |-> COVERED]
    ELSE [remaining_soh |-> remaining_soh, mark |-> NOT_COVERED]

\* one iteration of the loop of simulate_runout: the new remaining_soh and
\* the mark appended to result
coverage_step(remaining_soh, usage) ==
    IF isna(usage) \/ isna(remaining_soh)
    THEN [remaining_soh |-> remaining_soh, mark |-> NOT_COVERED]
    ELSE IF Ge(remaining_soh, usage)
    THEN [remaining_soh |-> Sub(remaining_soh, usage), mark |-> COVERED]
    ELSE [remaining_soh |-> remaining_soh, mark |-> NOT_COVERED]

---------------------------------------------------------------------------
(* Purchase Order Integration (inventory_health_app.py, lines 71-129)      *)

\* the clock: pd.Timestamp.today().normalize(), as a day number
Today == 0
\* days per forecast period: pd.Timedelta(weeks=...)
WeekDays == 7

\* astype(str): a missing cell becomes the text "nan"
astype_str(cell) == IF cell.absent THEN Text(<<110, 97, 110>>) ELSE cell

\* the characters str.strip() removes: those for which str.isspace() holds
\* (tab, LF, VT, FF, CR, FS, GS, RS, US, space, NEL, NBSP and the Unicode
\* space separators)
Whitespace ==
    (9..13) \cup (28..32) \cup {133, 160, 5760} \cup (8192..8202)
        \cup {8232, 8233, 8239, 8287, 12288}

\* str.strip() on a text: leading and trailing whitespace is removed
RECURSIVE lstrip(_)
lstrip(t) ==
    IF t # <<>> /\ Head(t) \in Whitespace THEN lstrip(Tail(t)) ELSE t
RECURSIVE rstrip(_)
rstrip(t) ==
    IF t # <<>> /\ t[Len(t)] \in Whitespace
    THEN rstrip(SubSeq(t, 1, Len(t) - 1))
    ELSE t
strip(cell) == IF cell.absent THEN cell ELSE Text(lstrip(rstrip(cell.val)))

\* df['SKU Code'].astype(str).str.strip()  (line 80; line 50 for the row,
\* whose fillna("") finds nothing left to fill)
clean_sku(cell) == strip(astype_str(cell))

\* an Expected Delivery Date cell as read: a text that is a day/month/year
\* date (of day number day) or any other text
DateText(d) == [parseable |-> TRUE, day |-> d]
BadDateText == [parseable |-> FALSE, day |-> 0]

\* pd.to_datetime(..., errors='coerce'): NaT for what does not parse
NaT == [absent |-> TRUE, val |-> 0]
to_datetime(cell) == IF cell.parseable THEN Num(cell.day) ELSE NaT

\* lines 80-86: the cleaned columns of one purchase-order line
clean_line(l) ==
    [sku |-> clean_sku(l.sku), qty |-> l.qty, date |-> to_datetime(l.date)]

\* df_po.dropna(subset=['SKU Code', 'Expected Delivery Date'])
RECURSIVE dropna(_)
dropna(lines) ==
    IF lines = <<>> THEN <<>>
    ELSE IF isna(Head(lines).sku) \/ isna(Head(lines).date)
         THEN dropna(Tail(lines))
         ELSE <<Head(lines)>> \o dropna(Tail(lines))

RECURSIVE clean_lines(_)
clean_lines(lines) ==
    IF lines = <<>> THEN <<>>
    ELSE <<clean_line(Head(lines))>> \o clean_lines(Tail(lines))

\* the group keys of df_po.groupby('SKU Code')
group_keys(lines) == { lines[i].sku.val : i \in DOMAIN lines }

\* groupby('SKU Code')['Expected Delivery Date'].min() of one group
RECURSIVE group_min(_, _)
group_min(lines, k) ==
    IF lines = <<>> THEN NaT
    ELSE LET rest == group_min(Tail(lines), k)
             l == Head(lines)
         IN  IF l.sku.val # k THEN rest
             ELSE IF isna(rest) \/ Lt(l.date, rest) THEN l.date
             ELSE rest

\* groupby('SKU Code')['Order Qty'].sum() of one group: NaN is skipped
RECURSIVE group_sum(_, _)
group_sum(lines, k) ==
    IF lines = <<>> THEN 0
    ELSE group_sum(Tail(lines), k)
         + (IF Head(lines).sku.val = k /\ ~isna(Head(lines).qty)
            THEN Head(lines).qty.val ELSE 0)

\* po_next_arrival.get(row['SKU Code'], None)
get_next_po(r, index) ==
    IF r.SKU.val \in DOMAIN index THEN index[r.SKU.val] ELSE None

\* mitigates_oos with the arrival test written <
mitigates_oos_strict(runout, arrival) ==
    IF isna(runout) \/ isna(arrival) THEN "N/A"
    ELSE IF arrival.val < Today + WeekDays * runout.val THEN "Yes"
    ELSE "No"

\* mitigates_oos on the row's Runout Period and Next PO Arrival
mitigates_oos(runout, arrival) ==
    IF isna(runout) \/ isna(arrival) THEN "N/A"
    ELSE IF arrival.val <= Today + WeekDays * runout.val THEN "Yes"
    ELSE "No"

\* lines 79-90: clean the PO columns, drop the lines missing key info
CleanPurchaseOrders ==
    /\ pc = "suggested"
    /\ df_po' = dropna(clean_lines(po_file))
    /\ pc' = "cleaned"
    /\ UNCHANGED <<row, forecast, status, suggested, er, sr, po_file,
                   po_next_arrival, po_next_qty, runout_period,
                   next_po_arrival, next_po_qty, po_mitigates>>

\* lines 92-93: the two dicts of the PO-by-SKU index
IndexPurchaseOrders ==
    /\ pc = "cleaned"
    /\ po_next_arrival' = [k \in group_keys(df_po) |-> group_min(df_po, k)]
    /\ po_next_qty' = [k \in group_keys(df_po) |-> Num(group_sum(df_po, k))]
    /\ pc' = "indexed"
    /\ UNCHANGED <<row, forecast, status, suggested, er, sr, po_file, df_po,
                   runout_period, next_po_arrival, next_po_qty, po_mitigates>>

\* estimate_runout, up to the loop: the early return of lines 97-98, or
\* remaining = row['SOH']
EstimateEnter ==
    /\ pc = "indexed"
    /\ er.state = "idle"
    /\ IF Len(forecast) = 0 \/ Le(row.SOH, Zero)
       THEN /\ er' = [er EXCEPT !.state = "returned"]
            /\ runout_period' = NaN
            /\ pc' = "estimated"
       ELSE /\ er' = [i |-> 0, remaining |-> row.SOH, result |-> NaN,
                      state |-> "loop"]
            /\ UNCHANGED <<runout_period, pc>>
    /\ UNCHANGED <<row, forecast, status, suggested, sr, po_file, df_po,
                   po_next_arrival, po_next_qty, next_po_arrival,
                   next_po_qty, po_mitigates>>

\* one iteration of "for i, col in enumerate(forecast_cols)", or the
\* "return np.nan" after the loop; the returned float(i) is a whole number
\* of periods
EstimateStep ==
    /\ pc = "indexed"
    /\ er.state = "loop"
    /\ IF er.i = Len(forecast)
       THEN /\ er' = [er EXCEPT !.state = "returned"]
            /\ runout_period' = NaN
            /\ pc' = "estimated"
       ELSE LET s == estimate_step(er.remaining, forecast[er.i + 1])
            IN  IF s.out
                THEN /\ er' = [er EXCEPT !.remaining = s.remaining,
                                         !.result = Num(er.i),
                                         !.state = "returned"]
                     /\ runout_period' = Num(er.i)
                     /\ pc' = "estimated"
                ELSE /\ er' = [er EXCEPT !.remaining = s.remaining,
                                         !.i = er.i + 1]
                     /\ UNCHANGED <<runout_period, pc>>
    /\ UNCHANGED <<row, forecast, status, suggested, sr, po_file, df_po,
                   po_next_arrival, po_next_qty, next_po_arrival,
                   next_po_qty, po_mitigates>>

\* lines 111-116: Next PO Arrival and Next PO Qty of the row
JoinPurchaseOrders ==
    /\ pc = "estimated"
    /\ next_po_arrival' = get_next_po(row, po_next_arrival)
    /\ next_po_qty' = get_next_po(row, po_next_qty)
    /\ pc' = "joined"
    /\ UNCHANGED <<row, forecast, status, suggested, er, sr, po_file, df_po,
                   po_next_arrival, po_next_qty, runout_period, po_mitigates>>

\* line 129: df['PO Mitigates OOS?'] = df.apply(mitigates_oos, axis=1)
MitigatesOos ==
    /\ pc = "joined"
    /\ po_mitigates' = mitigates_oos(runout_period, next_po_arrival)
    /\ pc' = "mitigated"
    /\ UNCHANGED <<row, forecast, status, suggested, er, sr, po_file, df_po,
                   po_next_arrival, po_next_qty, runout_period,
                   next_po_arrival, next_po_qty>>

NextPO ==
    \/ CleanPurchaseOrders
    \/ IndexPurchaseOrders
    \/ EstimateEnter
    \/ EstimateStep
    \/ JoinPurchaseOrders
    \/ MitigatesOos

\* sequences over S of length 0..n
SeqUpTo(S, n) == UNION { [1..k -> S] : k \in 0..n }

\* the cells of a purchase-order line
\* missing, "A", and "A" between a space and a tab in front and a line
\* break behind
PoSkuCells == {MissingSku, Text(<<65>>), Text(<<32, 9, 65, 10>>)}
PoQtyCells == {NaN, Num(MaxQty)}
PoDateCells ==
    {BadDateText, DateText(Today)}
        \cup { DateText(Today + WeekDays * MaxRunout + o) : o \in {0, 1} }
PoLines == [sku : PoSkuCells, qty : PoQtyCells, date : PoDateCells]

\* forecasts of the row joined to the index: none, or on-hand used up in
\* period n - 1
RunoutForecasts ==
    { [j \in 1..n |-> IF j = n THEN Num(Scale) ELSE Zero] :
          n \in 0..(MaxRunout + 1) }

\* the state before the PO block runs, for a row and its forecast columns
BeforePurchaseOrders ==
    /\ pc = "suggested"
    /\ status = assess_status(row)
    /\ suggested = suggest_reorder(row)
    /\ er = NoLoop
    /\ sr = NoSim
    /\ df_po = <<>>
    /\ po_next_arrival = EmptyDict
    /\ po_next_qty = EmptyDict
    /\ runout_period = NaN
    /\ next_po_arrival = None
    /\ next_po_qty = None
    /\ po_mitigates = ""

\* Specification SpecPO: a purchase-order table of up to MaxLines lines,
\* joined to one inventory row
InitPO ==
    /\ po_file \in SeqUpTo(PoLines, MaxLines)
    /\ row \in [SKU : { clean_sku(c) : c \in {MissingSku, Text(<<65>>),
                                              Text(<<66>>)} },
                SOH : {Num(Scale)}, MinQty : {NaN}, MaxQty : {NaN},
                MOQ : {NaN}, MinorMult : {NaN}]
    /\ forecast \in RunoutForecasts
    /\ BeforePurchaseOrders

SpecPO == InitPO /\ [][NextPO]_vars

---------------------------------------------------------------------------
(* Forecast Coverage Simulation (inventory_health_app.py, lines 158-169)   *)

\* no forecast columns: the coverage simulation is skipped with a warning
SkipSimulation ==
    /\ pc = "mitigated"
    /\ Len(forecast) = 0
    /\ pc' = "simulated"
    /\ UNCHANGED <<row, forecast, status, suggested, er, sr, po_file, df_po,
                   po_next_arrival, po_next_qty, runout_period,
                   next_po_arrival, next_po_qty, po_mitigates>>

\* simulate_runout, up to the loop: remaining_soh = row.get("SOH"), result = []
SimulateEnter ==
    /\ pc = "mitigated"
    /\ Len(forecast) > 0
    /\ sr.state = "idle"
    /\ sr' = [i |-> 0, remaining_soh |-> row.SOH, result |-> <<>>,
              state |-> "loop"]
    /\ UNCHANGED <<pc, row, forecast, status, suggested, er, po_file, df_po,
                   po_next_arrival, po_next_qty, runout_period,
                   next_po_arrival, next_po_qty, po_mitigates>>

\* one iteration of "for col in forecast_cols", or the return of the marks
SimulateStep ==
    /\ pc = "mitigated"
    /\ sr.state = "loop"
    /\ IF sr.i = Len(forecast)
       THEN /\ sr' = [sr EXCEPT !.state = "returned"]
            /\ pc' = "simulated"
       ELSE LET s == coverage_step(sr.remaining_soh, forecast[sr.i + 1])
            IN  /\ sr' = [sr EXCEPT !.remaining_soh = s.remaining_soh,
                                    !.result = Append(sr.result, s.mark),
                                    !.i = sr.i + 1]
                /\ UNCHANGED pc
    /\ UNCHANGED <<row, forecast, status, suggested, er, po_file, df_po,
                   po_next_arrival, po_next_qty, runout_period,
                   next_po_arrival, next_po_qty, po_mitigates>>

\* Specification SpecSim: one row whose on-hand and forecast cells range
\* over QtyNa, with a purchase-order table that has no lines
InitSim ==
    /\ po_file = <<>>
    /\ row \in [SKU : {Text(<<65>>)}, SOH : QtyNa, MinQty : {NaN},
                MaxQty : {NaN}, MOQ : {NaN}, MinorMult : {NaN}]
    /\ forecast \in SeqUpTo(QtyNa, MaxPeriods)
    /\ BeforePurchaseOrders

NextSim ==
    \/ CleanPurchaseOrders
    \/ IndexPurchaseOrders
    \/ EstimateEnter
    \/ EstimateStep
    \/ JoinPurchaseOrders
    \/ MitigatesOos
    \/ SkipSimulation
    \/ SimulateEnter
    \/ SimulateStep

SpecSim == InitSim /\ [][NextSim]_vars

---------------------------------------------------------------------------
(* Claims about simulate_runout and estimate_runout, under SpecSim *)

NPeriods == Len(forecast)

\* sum of the present usage values of periods 0..i (0-based), as a
\* fixed-point numerator; an absent usage counts as zero
RECURSIVE UsedThrough(_)
UsedThrough(i) ==
    IF i < 0 THEN 0
    ELSE UsedThrough(i - 1)
         + (IF forecast[i + 1].absent THEN 0 ELSE forecast[i + 1].val)

\* 0-based periods marked so far, and those marked not covered
Marked == { i \in 0..(NPeriods - 1) : i + 1 <= Len(sr.result) }
Uncovered == { i \in Marked : sr.result[i + 1] = NOT_COVERED }
MinOf(S) == CHOOSE m \in S : \A x \in S : m <= x

\* C5: coverage marking is monotonic: once a period is marked not covered,
\* every later period of the row is marked not covered too, and the
\* remaining-stock counter is not decremented after the first not-covered
\* period (it stays at on-hand minus the usage of the covered periods
\* before it).
C5_CoverageMonotonic ==
    Uncovered # {} =>
        /\ \A i \in Marked : i > MinOf(Uncovered) => i \in Uncovered
        /\ sr.remaining_soh =
               Sub(row.SOH, Num(UsedThrough(MinOf(Uncovered) - 1)))

\* periods by whose end the on-hand stock is used up
Exhausted ==
    { i \in 0..(NPeriods - 1) : row.SOH.val - UsedThrough(i) <= 0 }

Estimated == pc \in {"estimated", "joined", "mitigated", "simulated"}

\* C6: estimate_runout returns the smallest 0-based period index i with
\* on-hand minus the present usage of periods 0..i <= 0 (absent usage counts
\* as zero); it returns absent when on-hand is absent or <= 0, when there
\* are no forecast periods, or when no such index exists.  A present Runout
\* Period is in 0..n-1.
C6_RunoutIsFirstExhausted ==
    Estimated =>
        /\ runout_period =
               IF row.SOH.absent \/ row.SOH.val <= 0 \/ NPeriods = 0
                  \/ Exhausted = {}
               THEN NaN
               ELSE Num(MinOf(Exhausted))
        /\ ~runout_period.absent => runout_period.val \in 0..(NPeriods - 1)

\* C6 witness: a runout in the last of three periods, found after a period
\* whose usage is absent
C6_Witness ==
    /\ Estimated
    /\ NPeriods >= 2
    /\ ~runout_period.absent
    /\ runout_period.val = NPeriods - 1
    /\ \E i \in 1..(NPeriods - 1) : forecast[i].absent

\* rows of C10: on-hand > 0, every usage present and non-negative, and both
\* loops have returned
C10_Case ==
    /\ pc = "simulated"
    /\ Gt(row.SOH, Zero)
    /\ \A i \in 1..NPeriods : Ge(forecast[i], Zero)

\* C10 as stated: Runout Period = k exactly when period k is the first
\* period marked not covered, and Runout Period is absent exactly when
\* every period is marked covered.
C10_SameStop ==
    C10_Case =>
        /\ \A k \in 0..(NPeriods - 1) :
               (runout_period = Num(k)) <=>
                   (Uncovered # {} /\ MinOf(Uncovered) = k)
        /\ runout_period.absent <=> (Uncovered = {})

\* C10 amended: Runout Period = k implies that every period before k is
\* marked covered and that period k is marked not covered unless the usage
\* of periods 0..k equals on-hand exactly (then period k is marked covered);
\* an absent Runout Period implies that every period is marked covered; and
\* for rows where the usage of periods 0..i never equals on-hand exactly,
\* the two stop at the same period as stated.
C10_SameStopUnlessExact ==
    C10_Case =>
        /\ runout_period.absent => Uncovered = {}
        /\ \A k \in 0..(NPeriods - 1) :
               (runout_period = Num(k)) =>
                   /\ \A i \in 0..(k - 1) : i \notin Uncovered
                   /\ (k \in Uncovered) <=> (UsedThrough(k) # row.SOH.val)
        /\ (\A i \in 0..(NPeriods - 1) : UsedThrough(i) # row.SOH.val) =>
               /\ \A k \in 0..(NPeriods - 1) :
                      (runout_period = Num(k)) <=>
                          (Uncovered # {} /\ MinOf(Uncovered) = k)
               /\ runout_period.absent <=> (Uncovered = {})

\* C10 witness: both loops stop at period 1, whose usage exceeds what is left
C10_Witness ==
    /\ C10_Case
    /\ runout_period = Num(1)
    /\ Uncovered # {}
    /\ MinOf(Uncovered) = 1
    /\ UsedThrough(1) > row.SOH.val

---------------------------------------------------------------------------
(* Claims about the purchase-order integration, under SpecPO *)

\* C7: the PO mitigation result is 'N/A' if Runout Period or Next PO
\* Arrival is absent (also when the row's SKU has no entry in the index);
\* otherwise it is 'Yes' exactly when Next PO Arrival <= today + Runout
\* Period x 7 days, and 'No' otherwise.
C7_MitigationRule ==
    pc \in {"mitigated", "simulated"} =>
        /\ po_mitigates \in {"N/A", "Yes", "No"}
        /\ (po_mitigates = "N/A") <=>
               (runout_period.absent \/ next_po_arrival.absent)
        /\ row.SKU.val \notin DOMAIN po_next_arrival => po_mitigates = "N/A"
        /\ (po_mitigates = "Yes") <=>
               /\ ~runout_period.absent
               /\ ~next_po_arrival.absent
               /\ next_po_arrival.val - Today <= 7 * runout_period.val

\* C7 witness: an order arriving on the very day of a runout that is at
\* least one week away has been found to mitigate
C7_Witness ==
    /\ pc = "mitigated"
    /\ ~runout_period.absent
    /\ runout_period.val >= 1
    /\ ~next_po_arrival.absent
    /\ next_po_arrival.val = Today + 7 * runout_period.val
    /\ po_mitigates = "Yes"

\* the uploaded PO lines that have a SKU code and a parseable delivery date
GoodLines ==
    { i \in DOMAIN po_file :
          ~po_file[i].sku.absent /\ po_file[i].date.parseable }
\* the SKU code (trimmed) of an uploaded line that has one
SkuOf(i) == lstrip(rstrip(po_file[i].sku.val))
LinesOf(k) == { i \in GoodLines : SkuOf(i) = k }
RECURSIVE QtySum(_)
QtySum(S) ==
    IF S = {} THEN 0
    ELSE LET i == CHOOSE x \in S : TRUE
         IN  (IF po_file[i].qty.absent THEN 0 ELSE po_file[i].qty.val)
             + QtySum(S \ {i})

\* C8: the PO-by-SKU index maps each SKU code to (earliest expected delivery
\* date, sum of order quantities) over exactly the PO lines that have a SKU
\* code and a parseable delivery date; a line whose SKU code is missing or
\* whose date is unparseable contributes to no index entry; and the index is
\* complete before the row's Next PO Arrival / Next PO Qty is looked up.
C8_IndexOverGoodLines ==
    /\ pc \notin {"suggested", "cleaned"} =>
           /\ DOMAIN po_next_arrival = { SkuOf(i) : i \in GoodLines }
           /\ DOMAIN po_next_qty = { SkuOf(i) : i \in GoodLines }
           /\ \A k \in { SkuOf(i) : i \in GoodLines } :
                  /\ k \in DOMAIN po_next_arrival
                         => /\ \E i \in LinesOf(k) :
                                    po_next_arrival[k] = Num(po_file[i].date.day)
                            /\ \A i \in LinesOf(k) :
                                    po_next_arrival[k].val <= po_file[i].date.day
                  /\ k \in DOMAIN po_next_qty
                         => po_next_qty[k] = Num(QtySum(LinesOf(k)))
    /\ pc \in {"suggested", "cleaned", "indexed", "estimated"} =>
           (next_po_arrival = None /\ next_po_qty = None)
    /\ pc \in {"joined", "mitigated", "simulated"} =>
           /\ next_po_arrival = get_next_po(row, po_next_arrival)
           /\ next_po_qty = get_next_po(row, po_next_qty)

===========================================================================
